---- MODULE Spec2Model ----
(***************************************************************************)
(* GSTR-2B filing -> Tally import documents.                               *)
(*                                                                         *)
(* One conversion run: the Extractor flattens the filing into normalized   *)
(* invoices, the Ledger Planner derives the masters document, the Voucher  *)
(* Builder derives the vouchers document, and the front end delivers them  *)
(* (HTTP endpoint of main.py, file-writing tools of cli/for remote.py).    *)
(*                                                                         *)
(* Money read from the filing is held in thousandths (mills), so that the  *)
(* third fractional digit that r2 rounds away is present; money after r2   *)
(* is held in hundredths (cents).  float() arithmetic of the Planner is    *)
(* modelled by exact rational arithmetic.                                  *)
(***************************************************************************)
EXTENDS Integers, Sequences, FiniteSets, TLC

\* ------------------------------------------------------------- bounds
\* Supplier groups in a filing, and invoices in a filing (all groups together).
MaxSuppliers == 2
MaxInvoices == 3

\* ------------------------------------------------------ JSON values
\* A JSON value found where a number is expected: a number, or a text that
\* neither float() nor Decimal() accepts.
Num(m) == [kind |-> "number", mills |-> m]
NotANumber == [kind |-> "text", mills |-> 0]

\* Date texts, split at "-": 15-01-2024 and 2024-01-15.
GoodDate == <<15, 1, 2024>>
BadDate == <<2024, 1, 15>>

RawInv(dt, inum, txval, igst, cgst, sgst, val) ==
    [dt |-> dt, inum |-> inum, txval |-> txval, igst |-> igst,
     cgst |-> cgst, sgst |-> sgst, val |-> val]

\* ------------------------------------------- inputs of the pipeline runs
\* Amounts in mills: 100000 is 100.000.
InvInterstate ==
    RawInv(GoodDate, "INV-1", Num(100000), Num(18000), Num(0), Num(0), Num(118000))
InvLocal ==
    RawInv(GoodDate, "INV-2", Num(100000), Num(0), Num(9000), Num(9000), Num(118000))
\* A combined rate of 17%, and a total one cent above the sum of the parts.
InvOddLocal ==
    RawInv(GoodDate, "INV-1", Num(100000), Num(0), Num(8500), Num(8500), Num(117010))
InvBadDate ==
    RawInv(BadDate, "INV-3", Num(100000), Num(18000), Num(0), Num(0), Num(118000))
InvTextTaxable ==
    RawInv(GoodDate, "INV-4", NotANumber, Num(0), Num(8500), Num(8500), Num(117000))
InvTextTotal ==
    RawInv(GoodDate, "INV-5", Num(100000), Num(0), Num(8500), Num(8500), NotANumber)

SampleInvoices == {InvInterstate, InvLocal, InvOddLocal}

\* Inputs of the runs that fail: a date that does not parse, a text where a
\* number is expected.
FaultyInvoices == {InvLocal, InvBadDate, InvTextTaxable, InvTextTotal}

SampleSuppliers ==
    {[trdnm |-> "Acme Traders", ctin |-> "27AAAAA0000A1Z5"],
     [trdnm |-> "Round Off", ctin |-> "29BBBBB1111B1Z6"]}

\* ------------------------------------- inputs of the single-invoice runs
TxVals == {0, 4, 100000, 1005, 2675}
IgstVals == {0, 18000, 5}
CgstVals == {0, 9000, 8500}
SgstVals == {0, 9000, 8500}
\* total_invoice_value is drawn as the sum of the parts plus a residue.
Residues == {0, 10, -10, 500}
NumericInvoices ==
    {RawInv(GoodDate, "INV-9", Num(t), Num(i), Num(c), Num(s), Num(t + i + c + s + d)) :
        t \in TxVals, i \in IgstVals, c \in CgstVals, s \in SgstVals, d \in Residues}
    \cup
    {RawInv(GoodDate, "INV-9", Num(0), Num(i), Num(c), Num(0), Num(0)) :
        i \in IgstVals, c \in CgstVals}

\* --------------------------------------------------------- the filing
\* present: which of the keys data / docdata / b2b the document holds
\* ("b2b": all three, "docdata": no b2b key, "data": no docdata key,
\* "none": no data key), or "unparseable" for bytes that are not JSON.
Filing(present, groups) ==
    [present |-> present, rtnprd |-> "012024", b2b |-> groups]

RECURSIVE SumSeq(_)
SumSeq(s) == IF s = <<>> THEN 0 ELSE Head(s) + SumSeq(Tail(s))

\* Supplier groups holding counts[k] invoices each, the invoices taken in
\* order from flat.
RECURSIVE Groups(_, _, _)
Groups(sups, counts, flat) ==
    IF sups = <<>> THEN <<>>
    ELSE <<[trdnm |-> Head(sups).trdnm, ctin |-> Head(sups).ctin,
            inv |-> SubSeq(flat, 1, Head(counts))]>>
         \o Groups(Tail(sups), Tail(counts),
                   SubSeq(flat, Head(counts) + 1, Len(flat)))

\* The number of invoices of each of m supplier groups.
Shapes(m) == {c \in [1..m -> 0..MaxInvoices] : SumSeq(c) <= MaxInvoices}

AcmeGroup(inv) ==
    [trdnm |-> "Acme Traders", ctin |-> "27AAAAA0000A1Z5", inv |-> inv]

\* main.py's endpoint, and the file-writing tools of cli/for remote.py.
FrontEnds == {"http", "cli"}

\* The number of conversions one server, or one working directory, sees.
MaxRuns == 3

\* Filings of successive runs: one and two invoices that convert, a date the
\* Builder rejects after the Planner has passed, a text the Planner rejects,
\* bytes that are not JSON, and a filing without the b2b path.
RunFilings ==
    {Filing("b2b", <<AcmeGroup(<<InvInterstate>>)>>),
     Filing("b2b", <<AcmeGroup(<<InvLocal, InvInterstate>>)>>),
     Filing("b2b", <<AcmeGroup(<<InvLocal, InvBadDate>>)>>),
     Filing("b2b", <<AcmeGroup(<<InvTextTaxable>>)>>),
     Filing("unparseable", <<>>),
     Filing("data", <<>>)}

\* ------------------------------------------------------------ state
VARIABLES
    frontend,    \* which front end runs the conversion
    raw_data,    \* the parsed filing
    pc,          \* position of the run: start, extracted, planned, built, done, failed
    invoices,    \* extracted_invoices
    masters,     \* the masters document: its ledger records, in order
    vouchers,    \* the vouchers document: its voucher blocks, in order
    delivered,   \* what has left the run: files written, or the HTTP response body
    error,       \* which call raised, and what
    created,     \* the Planner's set of created names, as its last call left it
    run,         \* the number of the run: 1 for the first conversion
    history      \* the finished runs: input, outcome and documents of each

vars == <<frontend, raw_data, pc, invoices, masters, vouchers, delivered, error,
          created, run, history>>

NoOutput == [cleaned |-> <<>>, masters |-> <<>>, vouchers |-> <<>>]
NoError == [stage |-> "none", kind |-> "none"]

\* ---------------------------------------------------------- Extractor
\* json.loads / json.load of the uploaded bytes.
JsonLoadsRaises(raw) == raw.present = "unparseable"

\* Variant: subscripting (raw_data["data"]["docdata"]["b2b"]) instead of .get.
B2bSectionsSubscript(raw) ==
    IF raw.present = "b2b" THEN [raised |-> "none", sections |-> raw.b2b]
    ELSE [raised |-> "KeyError", sections |-> <<>>]

\* raw_data.get("data", {}), then .get("docdata", {}).get("b2b", []): a
\* missing key yields the default and nothing is raised.
B2bSections(raw) ==
    [raised |-> "none",
     sections |-> IF raw.present = "b2b" THEN raw.b2b ELSE <<>>]

ReturnPeriod(raw) == IF raw.present = "none" THEN "N/A" ELSE raw.rtnprd

\* Variant: every record carries the first group's name and GSTIN.
NormalizedInvoiceWrongSupplier(raw, supplier, inv) ==
    [supplier_name |-> raw.b2b[1].trdnm,
     supplier_gstin |-> raw.b2b[1].ctin,
     date |-> inv.dt,
     invoice_number |-> inv.inum,
     return_period |-> ReturnPeriod(raw),
     taxable_value |-> inv.txval,
     igst_amount |-> inv.igst,
     cgst_amount |-> inv.cgst,
     sgst_amount |-> inv.sgst,
     total_invoice_value |-> inv.val]

\* The record appended for one raw invoice of one supplier group.
NormalizedInvoice(raw, supplier, inv) ==
    [supplier_name |-> supplier.trdnm,
     supplier_gstin |-> supplier.ctin,
     date |-> inv.dt,
     invoice_number |-> inv.inum,
     return_period |-> ReturnPeriod(raw),
     taxable_value |-> inv.txval,
     igst_amount |-> inv.igst,
     cgst_amount |-> inv.cgst,
     sgst_amount |-> inv.sgst,
     total_invoice_value |-> inv.val]

\* The inner loop: one supplier's invoices appended to acc in document order.
RECURSIVE ExtractSupplier(_, _, _, _)
ExtractSupplier(raw, supplier, invs, acc) ==
    IF invs = <<>> THEN acc
    ELSE ExtractSupplier(raw, supplier, Tail(invs),
                         Append(acc, NormalizedInvoice(raw, supplier, Head(invs))))

\* The outer loop over supplier groups.
RECURSIVE ExtractSections(_, _, _)
ExtractSections(raw, sections, acc) ==
    IF sections = <<>> THEN acc
    ELSE ExtractSections(raw, Tail(sections),
                         ExtractSupplier(raw, Head(sections), Head(sections).inv, acc))

\* The extractor's result: what it raised ("none" at its return) and
\* extracted_invoices.
process_gstr2b_logic(raw) ==
    LET b2b == B2bSections(raw)
    IN  [raised |-> b2b.raised,
         invoices |-> IF b2b.raised = "none"
                      THEN ExtractSections(raw, b2b.sections, <<>>)
                      ELSE <<>>]

\* ------------------------------------------------------------ numbers
IsNumber(v) == v.kind = "number"

Abs(x) == IF x < 0 THEN -x ELSE x

\* n/d rounded to an integer, ties to the even neighbour: Python's round()
\* of a float, and Decimal.quantize(0) under the default context.
RoundHalfEven(n, d) ==
    LET nn == IF d < 0 THEN -n ELSE n
        dd == Abs(d)
        q == nn \div dd
        r == nn - q * dd
    IN  IF 2 * r < dd THEN q
        ELSE IF 2 * r > dd THEN q + 1
        ELSE IF q % 2 = 0 THEN q ELSE q + 1

\* Variant: ties go to the even hundredth (ROUND_HALF_EVEN).
r2HalfEven(mills) == RoundHalfEven(mills, 10)

\* Variant: the third fractional digit is cut, not rounded.
r2Truncating(mills) ==
    IF mills < 0 THEN -(Abs(mills) \div 10) ELSE mills \div 10

\* Decimal(str(val)).quantize(Decimal("0.01"), rounding=ROUND_HALF_UP):
\* mills to cents, ties away from zero.
r2(mills) ==
    IF mills < 0 THEN -((Abs(mills) + 5) \div 10) ELSE (mills + 5) \div 10

\* f"{label} {rate}%"
RateLabel(label, rate) == label \o " " \o ToString(rate) \o "%"

\* ------------------------------------------------------ Ledger Planner
Ledger(name, group, is_gst, gst_head) ==
    [name |-> name,
     parent |-> group,
     billwise |-> IF group = "Sundry Creditors" THEN "Yes" ELSE "No",
     is_gst |-> is_gst,
     gst_head |-> gst_head]

\* Variant: registration without the membership test.
create_ledger_elem_no_check(st, name, group, is_gst, gst_head) ==
    [st EXCEPT !.ledgers = Append(@, Ledger(name, group, is_gst, gst_head)),
               !.created = @ \cup {name}]

\* st: the planner's created set and the ledger records appended so far.
create_ledger_elem(st, name, group, is_gst, gst_head) ==
    IF name \in st.created THEN st
    ELSE [st EXCEPT !.ledgers = Append(@, Ledger(name, group, is_gst, gst_head)),
                    !.created = @ \cup {name}]

\* Variant: a Planner that takes a text for 0 instead of raising.
PlannerConversionIgnoresText(inv) == FALSE

\* float() of the four amounts the Planner converts, in the code's order.
PlannerConversionRaises(inv) ==
    \/ ~IsNumber(inv.taxable_value)
    \/ ~IsNumber(inv.igst_amount)
    \/ ~IsNumber(inv.cgst_amount)
    \/ ~IsNumber(inv.sgst_amount)

PlanInterstate(st, igst, taxable) ==
    IF igst > 0 /\ taxable > 0
    THEN LET rate == RoundHalfEven(igst * 100, taxable)
         IN  create_ledger_elem(
                 create_ledger_elem(st, RateLabel("Interstate Purchase", rate),
                                    "Purchase Accounts", FALSE, "None"),
                 RateLabel("Input IGST", rate), "Duties & Taxes", TRUE, "Integrated Tax")
    ELSE st

PlanLocal(st, cgst, sgst, taxable) ==
    IF (cgst > 0 \/ sgst > 0) /\ taxable > 0
    THEN LET rate == RoundHalfEven((cgst + sgst) * 100, taxable)
         IN  create_ledger_elem(
                 create_ledger_elem(
                     create_ledger_elem(st, RateLabel("Local Purchase", rate),
                                        "Purchase Accounts", FALSE, "None"),
                     RateLabel("Input CGST", rate \div 2), "Duties & Taxes", TRUE,
                     "Central Tax"),
                 RateLabel("Input SGST", rate \div 2), "Duties & Taxes", TRUE, "State Tax")
    ELSE st

\* The body of the Planner's loop for one invoice.
PlanInvoice(st, inv) ==
    IF PlannerConversionRaises(inv) THEN [st EXCEPT !.raised = "not a number"]
    ELSE LET taxable == inv.taxable_value.mills
             igst == inv.igst_amount.mills
             cgst == inv.cgst_amount.mills
             sgst == inv.sgst_amount.mills
             s1 == create_ledger_elem(st, inv.supplier_name, "Sundry Creditors",
                                      FALSE, "None")
         IN  PlanLocal(PlanInterstate(s1, igst, taxable), cgst, sgst, taxable)

RECURSIVE PlanLoop(_, _)
PlanLoop(st, invs) ==
    IF invs = <<>> \/ st.raised # "none" THEN st
    ELSE PlanLoop(PlanInvoice(st, Head(invs)), Tail(invs))

\* Variant: created kept at module level, not emptied by a call.
PlannerStartKeepsCreated == [created |-> created, ledgers |-> <<>>, raised |-> "none"]

\* created = set(), local to each call.
PlannerStart == [created |-> {}, ledgers |-> <<>>, raised |-> "none"]

\* The planner's state at its return (or at the raise).
generate_masters_string(invs) ==
    PlanLoop(create_ledger_elem(PlannerStart, "Round Off", "Indirect Expenses",
                                FALSE, "None"),
             invs)

\* ------------------------------------------------------ Voucher Builder
IsLeap(y) == (y % 4 = 0 /\ y % 100 # 0) \/ y % 400 = 0

DaysIn(m, y) ==
    IF m = 2 THEN (IF IsLeap(y) THEN 29 ELSE 28)
    ELSE IF m \in {4, 6, 9, 11} THEN 30 ELSE 31

\* datetime.strptime(date, "%d-%m-%Y") succeeds.
DateParses(dt) ==
    /\ Len(dt) = 3
    /\ dt[3] \in 1..9999
    /\ dt[2] \in 1..12
    /\ dt[1] \in 1..DaysIn(dt[2], dt[3])

\* .strftime("%Y%m%d"), as the number its digits spell.
VchDate(dt) == dt[3] * 10000 + dt[2] * 100 + dt[1]

\* r2() of the five amounts the Builder converts.
BuilderConversionRaises(inv) ==
    \/ ~IsNumber(inv.taxable_value)
    \/ ~IsNumber(inv.igst_amount)
    \/ ~IsNumber(inv.cgst_amount)
    \/ ~IsNumber(inv.sgst_amount)
    \/ ~IsNumber(inv.total_invoice_value)

\* Variant: the division guarded by the tax total instead of taxable.
RateGuardOnTax(tax_total, taxable) == tax_total # 0

\* The condition under which the Builder divides by taxable.
RateGuard(tax_total, taxable) == taxable # 0

\* Decimal division by a zero raises (DivisionByZero, or InvalidOperation
\* for 0/0).
DivisionRaises(tax_total, taxable) == RateGuard(tax_total, taxable) /\ taxable = 0

\* int((tax_total / taxable * 100).quantize(0)) if taxable != 0 else 0
BuilderRate(tax_total, taxable) ==
    IF RateGuard(tax_total, taxable)
    THEN RoundHalfEven(tax_total * 100, taxable)
    ELSE 0

\* One ALLLEDGERENTRIES.LIST block.  The AMOUNT text is prefix followed by
\* the decimal str of amount (cents).
Line(ledger_name, deemed, prefix, amount, bill) ==
    [ledger_name |-> ledger_name, deemed |-> deemed, prefix |-> prefix,
     amount |-> amount, bill |-> bill]

\* Variant: the half rate of the CGST/SGST labels rounded up.
InputTaxLinesHalfUp(igst, cgst, sgst, rate) ==
    IF igst > 0
    THEN <<Line(RateLabel("Input IGST", rate), "Yes", "-", igst, <<>>)>>
    ELSE <<Line(RateLabel("Input CGST", (rate + 1) \div 2), "Yes", "-", cgst, <<>>),
           Line(RateLabel("Input SGST", (rate + 1) \div 2), "Yes", "-", sgst, <<>>)>>

\* Variant: the branch taken on cgst/sgst presence, igst only otherwise.
InputTaxLinesLocalFirst(igst, cgst, sgst, rate) ==
    IF cgst > 0 \/ sgst > 0
    THEN <<Line(RateLabel("Input CGST", rate \div 2), "Yes", "-", cgst, <<>>),
           Line(RateLabel("Input SGST", rate \div 2), "Yes", "-", sgst, <<>>)>>
    ELSE <<Line(RateLabel("Input IGST", rate), "Yes", "-", igst, <<>>)>>

InputTaxLines(igst, cgst, sgst, rate) ==
    IF igst > 0
    THEN <<Line(RateLabel("Input IGST", rate), "Yes", "-", igst, <<>>)>>
    ELSE <<Line(RateLabel("Input CGST", rate \div 2), "Yes", "-", cgst, <<>>),
           Line(RateLabel("Input SGST", rate \div 2), "Yes", "-", sgst, <<>>)>>

\* Variant: the Round Off amount written as diff, not -diff.
RoundOffLinesPositiveDiff(debit_calc, invoice_total) ==
    IF debit_calc # invoice_total
    THEN LET diff == invoice_total - debit_calc
         IN  <<Line("Round Off", IF diff > 0 THEN "No" ELSE "Yes", "", diff, <<>>)>>
    ELSE <<>>

RoundOffLines(debit_calc, invoice_total) ==
    IF debit_calc # invoice_total
    THEN LET diff == invoice_total - debit_calc
         IN  <<Line("Round Off", IF diff > 0 THEN "No" ELSE "Yes", "", -diff, <<>>)>>
    ELSE <<>>

\* The voucher block of one invoice whose date and amounts convert.
Voucher(inv) ==
    LET taxable == r2(inv.taxable_value.mills)
        igst == r2(inv.igst_amount.mills)
        cgst == r2(inv.cgst_amount.mills)
        sgst == r2(inv.sgst_amount.mills)
        invoice_total == r2(inv.total_invoice_value.mills)
        tax_total == igst + cgst + sgst
        debit_calc == taxable + tax_total
        rate == BuilderRate(tax_total, taxable)
        purchase_ledger == IF igst > 0 THEN RateLabel("Interstate Purchase", rate)
                           ELSE RateLabel("Local Purchase", rate)
    IN  [date |-> VchDate(inv.date),
         reference |-> inv.invoice_number,
         voucher_number |-> inv.invoice_number,
         party_ledger |-> inv.supplier_name,
         lines |->
            <<Line(inv.supplier_name, "No", "", invoice_total,
                   <<[name |-> inv.invoice_number, billtype |-> "New Ref",
                      amount |-> invoice_total]>>),
              Line(purchase_ledger, "Yes", "-", taxable, <<>>)>>
            \o InputTaxLines(igst, cgst, sgst, rate)
            \o RoundOffLines(debit_calc, invoice_total)]

\* What the loop body raises for one invoice, "none" when it completes.
BuildRaises(inv) ==
    IF ~DateParses(inv.date) THEN "bad date"
    ELSE IF BuilderConversionRaises(inv) THEN "not a number"
    ELSE IF DivisionRaises(r2(inv.igst_amount.mills) + r2(inv.cgst_amount.mills)
                               + r2(inv.sgst_amount.mills),
                           r2(inv.taxable_value.mills))
         THEN "division by zero"
    ELSE "none"

\* Variant: a Builder that skips an invoice number it has already booked.
RECURSIVE BuildLoopDedup(_, _)
BuildLoopDedup(st, invs) ==
    IF invs = <<>> \/ st.raised # "none" THEN st
    ELSE LET inv == Head(invs)
             r == BuildRaises(inv)
             seen == \E k \in 1..Len(st.vouchers) :
                        st.vouchers[k].voucher_number = inv.invoice_number
         IN  BuildLoopDedup(IF r # "none" THEN [st EXCEPT !.raised = r]
                            ELSE IF seen THEN st
                            ELSE [st EXCEPT !.vouchers = Append(@, Voucher(inv))],
                            Tail(invs))

RECURSIVE BuildLoop(_, _)
BuildLoop(st, invs) ==
    IF invs = <<>> \/ st.raised # "none" THEN st
    ELSE LET inv == Head(invs)
             r == BuildRaises(inv)
         IN  BuildLoop(IF r # "none" THEN [st EXCEPT !.raised = r]
                       ELSE [st EXCEPT !.vouchers = Append(@, Voucher(inv))],
                       Tail(invs))

\* The builder's state at its return (or at the raise).
generate_vouchers_string(invs) ==
    BuildLoop([raised |-> "none", vouchers |-> <<>>], invs)

\* ------------------------------------------------------------- the run
Start(filing) ==
    /\ frontend \in FrontEnds
    /\ raw_data = filing
    /\ pc = "start"
    /\ invoices = <<>>
    /\ masters = <<>>
    /\ vouchers = <<>>
    /\ delivered = NoOutput
    /\ error = NoError
    /\ created = {}
    /\ run = 1
    /\ history = <<>>

\* Any filing of up to MaxSuppliers groups and MaxInvoices invoices of samples.
StartWith(samples) ==
    \E m \in 0..MaxSuppliers : \E c \in Shapes(m) :
        \E s \in [1..m -> SampleSuppliers], f \in [1..SumSeq(c) -> samples] :
            Start(Filing("b2b", Groups(s, c, f)))

\* A filing of invoices that convert, or one that lacks part of the path
\* data.docdata.b2b, or bytes that are not JSON.
Init ==
    \/ StartWith(SampleInvoices)
    \/ \E p \in {"docdata", "data", "none", "unparseable"} : Start(Filing(p, <<>>))

\* A filing in which invoices that do not convert may stand anywhere.
InitFaulty == StartWith(FaultyInvoices)

\* A filing of one invoice, its amounts drawn from the numeric sets.
InitNumeric ==
    \E i \in NumericInvoices : Start(Filing("b2b", <<AcmeGroup(<<i>>)>>))

\* The first of several conversions.
InitRuns == \E filing \in RunFilings : Start(filing)

\* process_gstr2b_logic / process_gstr2b_raw: the tools also write
\* cleaned_invoices.json.
Extract ==
    /\ pc = "start"
    /\ IF JsonLoadsRaises(raw_data)
       THEN /\ pc' = "failed"
            /\ error' = [stage |-> "parse", kind |-> "invalid json"]
            /\ UNCHANGED <<invoices, delivered>>
       ELSE LET r == process_gstr2b_logic(raw_data)
            IN  IF r.raised # "none"
                THEN /\ pc' = "failed"
                     /\ error' = [stage |-> "extractor", kind |-> r.raised]
                     /\ UNCHANGED <<invoices, delivered>>
                ELSE /\ pc' = "extracted"
                     /\ invoices' = r.invoices
                     /\ delivered' = IF frontend = "cli"
                                     THEN [delivered EXCEPT !.cleaned = <<r.invoices>>]
                                     ELSE delivered
                     /\ UNCHANGED error
    /\ UNCHANGED <<frontend, raw_data, masters, vouchers, created, run, history>>

\* generate_masters_string / generate_masters: the tools write
\* masters_import.xml after the loop.
Plan ==
    /\ pc = "extracted"
    /\ LET st == generate_masters_string(invoices)
       IN  /\ created' = st.created
           /\ IF st.raised # "none"
              THEN /\ pc' = "failed"
                   /\ error' = [stage |-> "planner", kind |-> st.raised]
                   /\ UNCHANGED <<masters, delivered>>
              ELSE /\ pc' = "planned"
                   /\ masters' = st.ledgers
                   /\ delivered' = IF frontend = "cli"
                                   THEN [delivered EXCEPT !.masters = <<st.ledgers>>]
                                   ELSE delivered
                   /\ UNCHANGED error
    /\ UNCHANGED <<frontend, raw_data, invoices, vouchers, run, history>>

\* generate_vouchers_string / generate_vouchers: the tools write
\* vouchers_import.xml after the loop.
Build ==
    /\ pc = "planned"
    /\ LET st == generate_vouchers_string(invoices)
       IN  IF st.raised # "none"
           THEN /\ pc' = "failed"
                /\ error' = [stage |-> "builder", kind |-> st.raised]
                /\ UNCHANGED <<vouchers, delivered>>
           ELSE /\ pc' = "built"
                /\ vouchers' = st.vouchers
                /\ delivered' = IF frontend = "cli"
                                THEN [delivered EXCEPT !.vouchers = <<st.vouchers>>]
                                ELSE delivered
                /\ UNCHANGED error
    /\ UNCHANGED <<frontend, raw_data, invoices, masters, created, run, history>>

\* The endpoint returns cleaned_data, masters_xml and vouchers_xml; the tools
\* print SUCCESS.
Return ==
    /\ pc = "built"
    /\ pc' = "done"
    /\ delivered' = IF frontend = "http"
                    THEN [cleaned |-> <<invoices>>, masters |-> <<masters>>,
                          vouchers |-> <<vouchers>>]
                    ELSE delivered
    /\ UNCHANGED <<frontend, raw_data, invoices, masters, vouchers, error,
                   created, run, history>>

\* The next request reaches the endpoint, or the tool is started again in
\* the same directory: the handler's locals are new, the files of earlier
\* runs are still on disk.
NewRun ==
    /\ pc \in {"done", "failed"}
    /\ run < MaxRuns
    /\ \E filing \in RunFilings : raw_data' = filing
    /\ pc' = "start"
    /\ invoices' = <<>>
    /\ masters' = <<>>
    /\ vouchers' = <<>>
    /\ error' = NoError
    /\ delivered' = IF frontend = "cli" THEN delivered ELSE NoOutput
    /\ run' = run + 1
    /\ history' = Append(history, [raw_data |-> raw_data, pc |-> pc, error |-> error,
                                   masters |-> masters, vouchers |-> vouchers])
    /\ UNCHANGED <<frontend, created>>

Next == Extract \/ Plan \/ Build \/ Return

NextRuns == Extract \/ Plan \/ Build \/ Return \/ NewRun

Spec == Init /\ [][Next]_vars

SpecFaulty == InitFaulty /\ [][Next]_vars

SpecNumeric == InitNumeric /\ [][Next]_vars

SpecRuns == InitRuns /\ [][NextRuns]_vars

\* ------------------------------------------------------------ properties
Produced == {"built", "done"}
Planned == {"planned", "built", "done"}

\* The number an AMOUNT text spells: "-" before the str of a negative
\* Decimal ("--9.00") spells none.
Malformed(line) == line.prefix = "-" /\ line.amount < 0
Signed(line) == IF line.prefix = "-" THEN -line.amount ELSE line.amount

RECURSIVE LineSum(_)
LineSum(lines) == IF lines = <<>> THEN 0 ELSE Signed(Head(lines)) + LineSum(Tail(lines))

Balanced(v) ==
    /\ \A k \in 1..Len(v.lines) : ~Malformed(v.lines[k])
    /\ LineSum(v.lines) = 0

\* C1: every voucher the Builder emits has signed line amounts (party,
\* purchase, input tax, Round Off) that sum to exactly zero, whatever amounts
\* the invoice carries.
C1_VouchersBalance ==
    \A i \in 1..Len(vouchers) : Balanced(vouchers[i])

MasterNames == {masters[k].name : k \in 1..Len(masters)}

\* C2: every ledger name a voucher line references is the name of a ledger
\* the Planner registered for the same invoice sequence.
C2_VoucherLedgersPlanned ==
    pc \in Produced =>
        \A i \in 1..Len(vouchers) : \A k \in 1..Len(vouchers[i].lines) :
            vouchers[i].lines[k].ledger_name \in MasterNames

\* C3: the masters document holds each ledger name exactly once, and planning
\* the invoice sequence followed by itself yields the identical ordered ledger
\* records.
C3_PlanningIdempotent ==
    pc \in Planned =>
        /\ \A a, b \in 1..Len(masters) : masters[a].name = masters[b].name => a = b
        /\ generate_masters_string(invoices \o invoices).raised = "none"
        /\ generate_masters_string(invoices \o invoices).ledgers = masters

\* C3 witness: a planned run in which a later invoice needs ledgers an earlier
\* one registered.
C3_Witness ==
    /\ pc = "planned"
    /\ Len(invoices) >= 2
    /\ invoices[1].supplier_name = invoices[2].supplier_name
    /\ invoices[1].igst_amount = invoices[2].igst_amount
    /\ Len(masters) >= 4

\* The Extractor has returned its sequence (the run may have failed later).
ExtractorReturned == pc # "start" /\ error.stage \notin {"parse", "extractor"}

\* Invoices of the supplier groups before group k.
RECURSIVE Offset(_, _)
Offset(sections, k) ==
    IF k <= 1 THEN 0 ELSE Offset(sections, k - 1) + Len(sections[k - 1].inv)

\* C4: the Extractor emits one record per raw invoice in traversal order
\* (supplier groups in document order, each group's invoices in document
\* order), each record carrying its own group's name and GSTIN and its own
\* invoice's fields; nothing is dropped, merged or reordered.
C4_ExtractionOrder ==
    ExtractorReturned =>
        LET sections == IF raw_data.present = "b2b" THEN raw_data.b2b ELSE <<>>
        IN  /\ Len(invoices) = Offset(sections, Len(sections) + 1)
            /\ \A k \in 1..Len(sections) : \A j \in 1..Len(sections[k].inv) :
                 LET rec == invoices[Offset(sections, k) + j]
                     inv == sections[k].inv[j]
                 IN  /\ rec.supplier_name = sections[k].trdnm
                     /\ rec.supplier_gstin = sections[k].ctin
                     /\ rec.date = inv.dt
                     /\ rec.invoice_number = inv.inum
                     /\ rec.taxable_value = inv.txval
                     /\ rec.igst_amount = inv.igst
                     /\ rec.cgst_amount = inv.cgst
                     /\ rec.sgst_amount = inv.sgst
                     /\ rec.total_invoice_value = inv.val

\* C4 witness: an extraction over two differently named groups, the second
\* holding a duplicated invoice number.
C4_Witness ==
    /\ pc = "extracted"
    /\ Len(raw_data.b2b) = 2
    /\ raw_data.b2b[1].trdnm # raw_data.b2b[2].trdnm
    /\ Len(raw_data.b2b[1].inv) = 1
    /\ Len(raw_data.b2b[2].inv) = 2
    /\ raw_data.b2b[2].inv[1].inum = raw_data.b2b[2].inv[2].inum
    /\ raw_data.b2b[1].inv[1].inum # raw_data.b2b[2].inv[1].inum
    /\ Len(invoices) = 3

\* C5: the vouchers document holds exactly one voucher block per invoice, in
\* the invoices' order and without deduplication: the i-th block's reference,
\* voucher number and party ledger are those of the i-th invoice.
C5_OneVoucherPerInvoice ==
    pc \in Produced =>
        /\ Len(vouchers) = Len(invoices)
        /\ \A i \in 1..Len(vouchers) :
             /\ vouchers[i].reference = invoices[i].invoice_number
             /\ vouchers[i].voucher_number = invoices[i].invoice_number
             /\ vouchers[i].party_ledger = invoices[i].supplier_name

\* C5 witness: a built run over three invoices, two of them with the same
\* invoice number.
C5_Witness ==
    /\ pc = "built"
    /\ Len(invoices) = 3
    /\ invoices[1].invoice_number = invoices[3].invoice_number
    /\ invoices[1].invoice_number # invoices[2].invoice_number
    /\ Len(vouchers) = 3

\* The raw invoices of the filing, whatever the extractor makes of them.
RawInvoices ==
    IF raw_data.present = "b2b"
    THEN UNION {{raw_data.b2b[k].inv[j] : j \in 1..Len(raw_data.b2b[k].inv)} :
                k \in 1..Len(raw_data.b2b)}
    ELSE {}

HasBadDate == \E inv \in RawInvoices : ~DateParses(inv.dt)

\* C6: a date that does not parse as day-month-year, at any position, fails
\* the whole run and the run delivers no output at all (no normalized
\* invoices, no masters document, no vouchers document) in every front end.
C6_AllOrNothing ==
    HasBadDate => pc \notin Produced /\ delivered = NoOutput

BuilderAmounts(inv) ==
    [taxable |-> r2(inv.taxable_value.mills),
     igst |-> r2(inv.igst_amount.mills),
     cgst |-> r2(inv.cgst_amount.mills),
     sgst |-> r2(inv.sgst_amount.mills),
     invoice_total |-> r2(inv.total_invoice_value.mills)]

DebitCalc(inv) ==
    LET a == BuilderAmounts(inv) IN a.taxable + a.igst + a.cgst + a.sgst

\* The line the balance check appends; a party line of a supplier that is
\* itself named Round Off carries a bill allocation and is not one.
IsRoundOffLine(line) == line.ledger_name = "Round Off" /\ line.bill = <<>>

RoundOffPositions(v) == {k \in 1..Len(v.lines) : IsRoundOffLine(v.lines[k])}

\* The parts of C7 that do not concern the amount: presence, uniqueness,
\* position and flag of the Round Off line.
RoundOffPlacement(v, inv) ==
    LET diff == BuilderAmounts(inv).invoice_total - DebitCalc(inv)
    IN  /\ (RoundOffPositions(v) # {}) <=> (diff # 0)
        /\ diff # 0 =>
             /\ RoundOffPositions(v) = {Len(v.lines)}
             /\ ~Malformed(v.lines[Len(v.lines)])
             /\ diff > 0 => v.lines[Len(v.lines)].deemed = "No"
             /\ diff < 0 => v.lines[Len(v.lines)].deemed = "Yes"

\* C7 as claimed: a voucher has a Round Off line iff debit_calc differs from
\* the rounded total; then it is the only one and the last line, its flag is
\* No for a positive difference and Yes for a negative one, and its amount
\* equals total_invoice_value - debit_calc.
C7_RoundOffAmountIsDifference ==
    pc \in Produced =>
        \A i \in 1..Len(vouchers) :
            LET diff == BuilderAmounts(invoices[i]).invoice_total - DebitCalc(invoices[i])
                last == vouchers[i].lines[Len(vouchers[i].lines)]
            IN  /\ RoundOffPlacement(vouchers[i], invoices[i])
                /\ diff # 0 => Signed(last) = diff

\* C7 as amended: the same, but the amount of the Round Off line is
\* debit_calc - total_invoice_value, the negation of the difference.
C7_RoundOffAmountNegatesDifference ==
    pc \in Produced =>
        \A i \in 1..Len(vouchers) :
            LET diff == BuilderAmounts(invoices[i]).invoice_total - DebitCalc(invoices[i])
                last == vouchers[i].lines[Len(vouchers[i].lines)]
            IN  /\ RoundOffPlacement(vouchers[i], invoices[i])
                /\ diff # 0 => Signed(last) = -diff

\* C7 witness: built vouchers with a Round Off line, for a total above the
\* sum of the parts.
C7_Witness ==
    /\ pc = "built"
    /\ Len(vouchers) = 1
    /\ BuilderAmounts(invoices[1]).invoice_total > DebitCalc(invoices[1])
    /\ IsRoundOffLine(vouchers[1].lines[Len(vouchers[1].lines)])
    /\ vouchers[1].lines[Len(vouchers[1].lines)].amount < 0

Convertible(inv) ==
    /\ DateParses(inv.date)
    /\ ~BuilderConversionRaises(inv)

ZeroRateLabels ==
    {RateLabel("Interstate Purchase", 0), RateLabel("Local Purchase", 0),
     RateLabel("Input IGST", 0), RateLabel("Input CGST", 0), RateLabel("Input SGST", 0)}

\* C8: a zero taxable_value is never an error: no division by zero is raised,
\* an invoice sequence whose dates and amounts convert passes the Planner and
\* the Builder, and the voucher of an invoice with taxable_value 0 names its
\* purchase and input-tax ledgers with rate 0.
C8_ZeroTaxableIsNoError ==
    /\ error.kind # "division by zero"
    /\ (\A i \in 1..Len(invoices) : Convertible(invoices[i])) =>
            error.stage \notin {"planner", "builder"}
    /\ pc \in Produced =>
         \A i \in 1..Len(vouchers) :
            invoices[i].taxable_value = Num(0) =>
                \A k \in 2..Len(vouchers[i].lines) :
                    \/ IsRoundOffLine(vouchers[i].lines[k])
                    \/ vouchers[i].lines[k].ledger_name \in ZeroRateLabels

\* C8 witness: a built voucher for an invoice with taxable_value 0 and a
\* positive tax amount.
C8_Witness ==
    /\ pc = "built"
    /\ Len(vouchers) = 1
    /\ invoices[1].taxable_value = Num(0)
    /\ invoices[1].igst_amount.mills > 0
    /\ vouchers[1].lines[3].ledger_name = RateLabel("Input IGST", 0)

RoundOffLedger == Ledger("Round Off", "Indirect Expenses", FALSE, "None")

\* C9: a filing that lacks data, docdata or b2b yields an empty invoice
\* sequence and the run completes: the masters document holds only the Round
\* Off ledger and the vouchers document holds no voucher.
C9_MissingPathYieldsNoInvoices ==
    raw_data.present \in {"docdata", "data", "none"} =>
        /\ pc # "failed"
        /\ invoices = <<>>
        /\ pc \in Planned => masters = <<RoundOffLedger>>
        /\ pc \in Produced => vouchers = <<>>
        /\ pc = "done" =>
             delivered = [cleaned |-> <<(<<>>)>>, masters |-> <<(<<RoundOffLedger>>)>>,
                          vouchers |-> <<(<<>>)>>]

\* C9 witness: a finished run over a filing with no data key.
C9_Witness ==
    /\ raw_data.present = "none"
    /\ pc = "done"
    /\ delivered.masters = <<(<<RoundOffLedger>>)>>

NumericFields(inv) == {inv.txval, inv.igst, inv.cgst, inv.sgst, inv.val}
PlannerFields(inv) == {inv.txval, inv.igst, inv.cgst, inv.sgst}

HasNonNumber == \E inv \in RawInvoices : \E v \in NumericFields(inv) : ~IsNumber(v)
PlannerMeetsNonNumber == \E inv \in RawInvoices : \E v \in PlannerFields(inv) : ~IsNumber(v)

IsHalfUp(mills, cents) ==
    /\ Abs(10 * cents - mills) <= 5
    /\ Abs(10 * cents - mills) = 5 => Abs(10 * cents) > Abs(mills)

\* C11: r2 rounds a value of three fractional digits to the nearest
\* hundredth, a tie going away from zero (1.005 gives 1.01, 2.675 gives 2.68),
\* and the party, bill-allocation, purchase and input-tax amounts of every
\* voucher are the invoice's values rounded so.
C11_RoundsHalfUp ==
    pc \in Produced =>
        \A i \in 1..Len(vouchers) :
            LET inv == invoices[i]
                lines == vouchers[i].lines
            IN  /\ IsHalfUp(inv.total_invoice_value.mills, lines[1].amount)
                /\ IsHalfUp(inv.total_invoice_value.mills, lines[1].bill[1].amount)
                /\ IsHalfUp(inv.taxable_value.mills, lines[2].amount)
                /\ inv.taxable_value = Num(1005) => lines[2].amount = 101
                /\ inv.taxable_value = Num(2675) => lines[2].amount = 268
                /\ IF Len(lines) - Cardinality(RoundOffPositions(vouchers[i])) = 3
                   THEN IsHalfUp(inv.igst_amount.mills, lines[3].amount)
                   ELSE /\ IsHalfUp(inv.cgst_amount.mills, lines[3].amount)
                        /\ IsHalfUp(inv.sgst_amount.mills, lines[4].amount)

\* C11 witness: a built voucher whose taxable value 1.005 and igst 0.005 lie
\* exactly halfway.
C11_Witness ==
    /\ pc = "built"
    /\ Len(vouchers) = 1
    /\ invoices[1].taxable_value = Num(1005)
    /\ vouchers[1].lines[2].amount = 101
    /\ invoices[1].igst_amount = Num(5)
    /\ vouchers[1].lines[3].amount = 1

\* The ledger records a planning pass over the one invoice inv appends.
LedgersFor(inv) == generate_masters_string(<<inv>>).ledgers

RegistersInterstate(inv) ==
    \E k \in 1..Len(LedgersFor(inv)) : LedgersFor(inv)[k].gst_head = "Integrated Tax"

RegistersLocal(inv) ==
    \E k \in 1..Len(LedgersFor(inv)) :
        LedgersFor(inv)[k].gst_head \in {"Central Tax", "State Tax"}

\* C12: for no invoice does the Planner perform both the interstate
\* registration (Interstate Purchase, Input IGST) and the local registration
\* (Local Purchase, Input CGST/SGST), an invoice with igst and cgst or sgst
\* at once included.
C12_RegistrationsExclusive ==
    pc \in Planned =>
        \A i \in 1..Len(invoices) :
            ~(RegistersInterstate(invoices[i]) /\ RegistersLocal(invoices[i]))

\* C13: after planning, every invoice's supplier_name names a ledger under
\* Sundry Creditors with bill-wise tracking on, and every ledger of another
\* parent group has bill-wise tracking off, also for a supplier_name equal to
\* another ledger's name.
C13_SupplierLedgerIsCreditor ==
    pc \in Planned =>
        /\ \A i \in 1..Len(invoices) :
             \E k \in 1..Len(masters) :
                /\ masters[k].name = invoices[i].supplier_name
                /\ masters[k].parent = "Sundry Creditors"
                /\ masters[k].billwise = "Yes"
        /\ \A k \in 1..Len(masters) :
             masters[k].parent # "Sundry Creditors" => masters[k].billwise = "No"

\* The invoice that first registers the ledger named name: 0 for a ledger
\* registered before the loop.
RECURSIVE FirstRegistrant(_, _)
FirstRegistrant(name, i) ==
    IF \E k \in 1..Len(generate_masters_string(SubSeq(invoices, 1, i)).ledgers) :
           generate_masters_string(SubSeq(invoices, 1, i)).ledgers[k].name = name
    THEN i
    ELSE FirstRegistrant(name, i + 1)

\* Position of a ledger within its invoice: supplier, then purchase ledger,
\* then input-tax ledgers.
KindRank(ledger) ==
    CASE ledger.parent = "Indirect Expenses" -> 0
      [] ledger.parent = "Sundry Creditors" -> 1
      [] ledger.parent = "Purchase Accounts" -> 2
      [] OTHER -> 3

\* C14: the masters document starts with Round Off under Indirect Expenses and
\* lists ledgers in first-registration order: by registering invoice, and
\* within an invoice supplier, then purchase ledger, then input-tax ledgers.
C14_FirstRegistrationOrder ==
    pc \in Planned =>
        /\ masters[1] = RoundOffLedger
        /\ \A a, b \in 1..Len(masters) :
             a < b =>
                LET fa == FirstRegistrant(masters[a].name, 0)
                    fb == FirstRegistrant(masters[b].name, 0)
                IN  \/ fa < fb
                    \/ fa = fb /\ KindRank(masters[a]) <= KindRank(masters[b])

\* The lines of a voucher between its purchase line and its Round Off line.
TaxLines(v) == SubSeq(v.lines, 3, Len(v.lines) - Cardinality(RoundOffPositions(v)))

\* C15: a voucher whose rounded igst is positive has exactly one input-tax
\* line, Input IGST {rate}% for -igst; any other voucher has exactly two,
\* Input CGST {h}% for -cgst and Input SGST {h}% for -sgst, h the floor of
\* half the combined rate (rate 17 gives 8%, rate 18 gives 9%).
C15_InputTaxFollowsIgst ==
    pc \in Produced =>
        \A i \in 1..Len(vouchers) :
            LET a == BuilderAmounts(invoices[i])
                rate == BuilderRate(a.igst + a.cgst + a.sgst, a.taxable)
                h == (rate - (rate % 2)) \div 2
                tax == TaxLines(vouchers[i])
            IN  IF a.igst > 0
                THEN /\ Len(tax) = 1
                     /\ tax[1].ledger_name = RateLabel("Input IGST", rate)
                     /\ ~Malformed(tax[1]) /\ Signed(tax[1]) = -a.igst
                ELSE /\ Len(tax) = 2
                     /\ tax[1].ledger_name = RateLabel("Input CGST", h)
                     /\ tax[2].ledger_name = RateLabel("Input SGST", h)
                     /\ ~Malformed(tax[1]) /\ Signed(tax[1]) = -a.cgst
                     /\ ~Malformed(tax[2]) /\ Signed(tax[2]) = -a.sgst
                     /\ rate = 17 => /\ tax[1].ledger_name = "Input CGST 8%"
                                     /\ tax[2].ledger_name = "Input SGST 8%"
                     /\ rate = 18 => /\ tax[1].ledger_name = "Input CGST 9%"
                                     /\ tax[2].ledger_name = "Input SGST 9%"

C15_Witness ==
    /\ pc = "built"
    /\ Len(vouchers) = 1
    /\ invoices[1].taxable_value = Num(100000)
    /\ invoices[1].igst_amount = Num(0)
    /\ invoices[1].cgst_amount = Num(8500)
    /\ invoices[1].sgst_amount = Num(8500)
    /\ Len(TaxLines(vouchers[1])) = 2
    /\ vouchers[1].lines[3].ledger_name = "Input CGST 8%"
    /\ vouchers[1].lines[4].ledger_name = "Input SGST 8%"

\* The finished runs whose input was the input of the present run.
EarlierRunsOnSameInput == {k \in 1..Len(history) : history[k].raw_data = raw_data}

\* C16: whatever runs came before, successful or failed, a run on an input
\* plans the ledger records, builds the vouchers and ends as every earlier run
\* on that input did, the first one included; the Planner's created set
\* holds the names of this run's ledgers only.
C16_RunsAreIndependent ==
    /\ pc \in Planned => created = MasterNames
    /\ \A k \in EarlierRunsOnSameInput :
         /\ pc \in Planned => masters = history[k].masters
         /\ pc \in Produced => vouchers = history[k].vouchers
         /\ pc \in {"done", "failed"} =>
                /\ pc = history[k].pc
                /\ error = history[k].error
                /\ masters = history[k].masters
                /\ vouchers = history[k].vouchers

C16_Witness ==
    /\ run = 3
    /\ pc = "done"
    /\ 1 \in EarlierRunsOnSameInput
    /\ Len(masters) = 7
    /\ Len(vouchers) = 2
    /\ history[2].raw_data # raw_data
    /\ history[2].pc = "failed"
    /\ history[2].error.stage = "builder"
    /\ created = MasterNames

====
